---- MODULE Spec2Model ----
(***************************************************************************)
(* volo-http/src/extension/mod.rs: Extension<T> as a Layer and the         *)
(* ExtensionService<S, T> it builds.  ExtensionService::call clones the    *)
(* held value into the call's context and then calls the inner service.    *)
(***************************************************************************)
EXTENDS Integers, Sequences, FiniteSets, TLC

\* ---------------------------------------------------------------- bounds
MaxLayers == 2      \* Extension layers stacked on the base service

Calls    == {1, 2}               \* the calls that may be in flight together
Types    == {"i32", "String"}    \* the types T of the held values
Values   == {1, 2}               \* the values of one type
Requests == {1, 2}               \* the request payloads
Levels   == 0..MaxLayers          \* 0 is the base service, k >= 1 the k-th wrap

\* ------------------------------------------------- the extension container
None     == 0                      \* no entry of that type
Fresh    == [t \in Types |-> None]
NoCx     == [t \in Types |-> -1]   \* no context received (yet)

\* The contexts a call may arrive with: empty, or holding a value of each type.
StartContexts == {Fresh, [t \in Types |-> 1]}

\* Extensions::insert: keyed by the value's type, replaces any entry of it.
Insert(c, t, v) == [c EXCEPT ![t] = v]

\* ------------------------------------------------------------ the results
NoRet   == [tag |-> "None", body |-> <<>>]
Ok(b)   == [tag |-> "Ok", body |-> b]
Err(e)  == [tag |-> "Err", body |-> <<"E", e>>]

\* The base service: answers from the String extension it finds in the
\* context it is called with, and fails on the even requests.
InnerHandle(c, r) ==
    IF r % 2 = 0 THEN Err(r)
    ELSE IF c["String"] # None THEN Ok(<<"found", c["String"]>>)
    ELSE Ok(<<"missing">>)

\* (a bug: T::default() where the clone was meant)
CloneDefault(e) == [e EXCEPT !.val = 1]

\* T::clone of the held value
Clone(e) == e

\* -------------------------------------------------------------- the state
VARIABLES
    services,   \* services[k]: the ExtensionService built by the k-th layer()
    svc,        \* svc[c]: the service call c was made on (0: the base), -1: none
    phase,      \* phase[c][k]: where call c is in service k's call
    cx,         \* cx[c]: the context of call c
    req,        \* req[c][k]: the request service k received (0: none)
    seen,       \* seen[c][k]: the context as service k's call received it
    ret         \* ret[c][k]: what service k's call returned

vars == <<services, svc, phase, cx, req, seen, ret>>

Init ==
    /\ services = <<>>
    /\ svc   = [c \in Calls |-> -1]
    /\ phase = [c \in Calls |-> [k \in Levels |-> "none"]]
    /\ cx    = [c \in Calls |-> Fresh]
    /\ req   = [c \in Calls |-> [k \in Levels |-> 0]]
    /\ seen  = [c \in Calls |-> [k \in Levels |-> NoCx]]
    /\ ret   = [c \in Calls |-> [k \in Levels |-> NoRet]]

\* Extension::layer: ExtensionService { inner, ext: self.0 }
ExtensionService(inner, ext) == [inner |-> inner, ext |-> ext]

Layer(t, v) ==
    /\ Len(services) < MaxLayers
    /\ services' = Append(services, ExtensionService(Len(services), [ty |-> t, val |-> v]))
    /\ UNCHANGED <<svc, phase, cx, req, seen, ret>>

\* The framework calls service k with context c0 and request r.  (The calls
\* are numbered in the order they start.)
StartCall(c, k, c0, r) ==
    /\ svc[c] = -1
    /\ \A d \in Calls : d < c => svc[d] # -1
    /\ k \in 0..Len(services)
    /\ svc'   = [svc EXCEPT ![c] = k]
    /\ phase' = [phase EXCEPT ![c][k] = "idle"]
    /\ cx'    = [cx EXCEPT ![c] = c0]
    /\ req'   = [req EXCEPT ![c][k] = r]
    /\ seen'  = [seen EXCEPT ![c][k] = c0]
    /\ UNCHANGED <<services, ret>>

\* (a bug: the value is inserted only when the context has none of its type)
CallInsertIfAbsent(c, k) ==
    /\ k >= 1
    /\ phase[c][k] = "idle"
    /\ LET ext == Clone(services[k].ext)
       IN  cx' = [cx EXCEPT ![c] = IF cx[c][ext.ty] = None
                                   THEN Insert(cx[c], ext.ty, ext.val) ELSE cx[c]]
    /\ phase' = [phase EXCEPT ![c][k] = "inserted"]
    /\ UNCHANGED <<services, svc, req, seen, ret>>

\* (a bug: one extension container shared by the calls in flight)
CallInsertShared(c, k) ==
    /\ k >= 1
    /\ phase[c][k] = "idle"
    /\ LET ext == Clone(services[k].ext)
       IN  cx' = [d \in Calls |-> IF d = c \/ svc[d] # -1
                                  THEN Insert(cx[d], ext.ty, ext.val) ELSE cx[d]]
    /\ phase' = [phase EXCEPT ![c][k] = "inserted"]
    /\ UNCHANGED <<services, svc, req, seen, ret>>

\* (a bug: the container is replaced by one that holds the value alone)
CallInsertReplaceAll(c, k) ==
    /\ k >= 1
    /\ phase[c][k] = "idle"
    /\ LET ext == Clone(services[k].ext)
       IN  cx' = [cx EXCEPT ![c] = Insert(Fresh, ext.ty, ext.val)]
    /\ phase' = [phase EXCEPT ![c][k] = "inserted"]
    /\ UNCHANGED <<services, svc, req, seen, ret>>

\* (a bug: the held value is moved into the context, a default is left behind)
CallInsertMove(c, k) ==
    /\ k >= 1
    /\ phase[c][k] = "idle"
    /\ LET ext == services[k].ext
       IN  cx' = [cx EXCEPT ![c] = Insert(cx[c], ext.ty, ext.val)]
    /\ services' = [services EXCEPT ![k].ext.val = 1]
    /\ phase' = [phase EXCEPT ![c][k] = "inserted"]
    /\ UNCHANGED <<svc, req, seen, ret>>

\* cx.extensions_mut().insert(self.ext.clone());
CallInsert(c, k) ==
    /\ k >= 1
    /\ phase[c][k] = "idle"
    /\ LET ext == Clone(services[k].ext)
       IN  cx' = [cx EXCEPT ![c] = Insert(cx[c], ext.ty, ext.val)]
    /\ phase' = [phase EXCEPT ![c][k] = "inserted"]
    /\ UNCHANGED <<services, svc, req, seen, ret>>

\* (a bug: the inner service is handed a default request)
CallInnerDefaultReq(c, k) ==
    /\ k >= 1
    /\ phase[c][k] = "inserted"
    /\ LET i == services[k].inner
       IN  /\ phase' = [phase EXCEPT ![c][k] = "delegated", ![c][i] = "idle"]
           /\ req'   = [req EXCEPT ![c][i] = 1]
           /\ seen'  = [seen EXCEPT ![c][i] = cx[c]]
    /\ UNCHANGED <<services, svc, cx, ret>>

\* self.inner.call(cx, req)
CallInner(c, k) ==
    /\ k >= 1
    /\ phase[c][k] = "inserted"
    /\ LET i == services[k].inner
       IN  /\ phase' = [phase EXCEPT ![c][k] = "delegated", ![c][i] = "idle"]
           /\ req'   = [req EXCEPT ![c][i] = req[c][k]]
           /\ seen'  = [seen EXCEPT ![c][i] = cx[c]]
    /\ UNCHANGED <<services, svc, cx, ret>>

\* (a bug: an error of the inner service is answered with a default response)
CallReturnSwallow(c, k) ==
    /\ k >= 1
    /\ phase[c][k] = "delegated"
    /\ LET i == services[k].inner
       IN  /\ phase[c][i] = "done"
           /\ ret' = [ret EXCEPT ![c][k] = IF ret[c][i].tag = "Err"
                                           THEN Ok(<<"missing">>) ELSE ret[c][i]]
    /\ phase' = [phase EXCEPT ![c][k] = "done"]
    /\ UNCHANGED <<services, svc, cx, req, seen>>

\* (a bug: the inserted value is taken out of the context again on return)
CallReturnCleanup(c, k) ==
    /\ k >= 1
    /\ phase[c][k] = "delegated"
    /\ LET i == services[k].inner
       IN  /\ phase[c][i] = "done"
           /\ ret' = [ret EXCEPT ![c][k] = ret[c][i]]
    /\ cx' = [cx EXCEPT ![c][services[k].ext.ty] = None]
    /\ phase' = [phase EXCEPT ![c][k] = "done"]
    /\ UNCHANGED <<services, svc, req, seen>>

\* (a bug: a failed inner call is tried again)
CallReturnRetry(c, k) ==
    /\ k >= 1
    /\ phase[c][k] = "delegated"
    /\ LET i == services[k].inner
       IN  /\ phase[c][i] = "done"
           /\ IF ret[c][i].tag = "Err" /\ i = 0
              THEN /\ phase' = [phase EXCEPT ![c][k] = "inserted", ![c][i] = "none"]
                   /\ ret' = ret
              ELSE /\ phase' = [phase EXCEPT ![c][k] = "done"]
                   /\ ret' = [ret EXCEPT ![c][k] = ret[c][i]]
    /\ UNCHANGED <<services, svc, cx, req, seen>>

\* .await of the inner call, whose result is the call's result
CallReturn(c, k) ==
    /\ k >= 1
    /\ phase[c][k] = "delegated"
    /\ LET i == services[k].inner
       IN  /\ phase[c][i] = "done"
           /\ ret' = [ret EXCEPT ![c][k] = ret[c][i]]
    /\ phase' = [phase EXCEPT ![c][k] = "done"]
    /\ UNCHANGED <<services, svc, cx, req, seen>>

\* The base service, holding &mut Cx, modifies the value of type t it finds in
\* its context.
InnerWrite(c, t, v) ==
    /\ phase[c][0] = "idle"
    /\ cx[c][t] \notin {None, v}
    /\ cx' = [cx EXCEPT ![c] = Insert(cx[c], t, v)]
    /\ phase' = [phase EXCEPT ![c][0] = "wrote"]
    /\ UNCHANGED <<services, svc, req, seen, ret>>

\* The base service completes.
InnerReturn(c) ==
    /\ phase[c][0] \in {"idle", "wrote"}
    /\ ret' = [ret EXCEPT ![c][0] = InnerHandle(seen[c][0], req[c][0])]
    /\ phase' = [phase EXCEPT ![c][0] = "done"]
    /\ UNCHANGED <<services, svc, cx, req, seen>>

Next ==
    \/ \E t \in Types, v \in Values : Layer(t, v)
    \/ \E c \in Calls, k \in Levels, c0 \in StartContexts, r \in Requests : StartCall(c, k, c0, r)
    \/ \E c \in Calls, k \in Levels : CallInsert(c, k)
    \/ \E c \in Calls, k \in Levels : CallInner(c, k)
    \/ \E c \in Calls, k \in Levels : CallReturn(c, k)
    \/ \E c \in Calls, t \in Types, v \in Values : InnerWrite(c, t, v)
    \/ \E c \in Calls : InnerReturn(c)

Spec == Init /\ [][Next]_vars

\* `self.inner.call(cx, req).await` is the tail of ExtensionService::call: the
\* poll that finds the inner call complete returns its result, so a return
\* that is due is not put off for ever.  Whether the base service ever
\* completes is not assumed.
FairSpec ==
    /\ Spec
    /\ WF_vars(\E c \in Calls, k \in 1..MaxLayers : CallReturn(c, k))

\* ------------------------------------------------------ reading the state
Ext(k)   == services[k].ext
Inner(k) == services[k].inner
Wraps    == 1..Len(services)                 \* the ExtensionServices built
Odd(r)   == r % 2 = 1

\* What layers k, k-1, .. 1 leave in a context that arrived as c0 by the time
\* the base service is called: per type, the value of the lowest such layer.
AtBase(k, c0) ==
    [t \in Types |->
        LET S == {j \in 1..k : Ext(j).ty = t}
        IN  IF S = {} THEN c0[t]
            ELSE Ext(CHOOSE j \in S : \A j2 \in S : j <= j2).val]

\* What service i returns when it is called alone on (c0, r).
Alone(i, c0, r) == InnerHandle(AtBase(i, c0), r)

CallState(c) == <<svc[c], phase[c], cx[c], req[c], seen[c], ret[c]>>

\* ------------------------------------------------------------------- C1
\* C1: whenever ExtensionService::call has called its inner service, the
\* context the inner service received holds the held value under its type,
\* also when the context arrived with another value of that type.
C1_InsertBeforeInner ==
    \A c \in Calls, k \in Wraps :
        phase[c][k] \in {"delegated", "done"}
            => seen[c][Inner(k)][Ext(k).ty] = Ext(k).val

C1_Witness ==
    \E c \in Calls, k \in Wraps :
        /\ phase[c][k] = "delegated"
        /\ seen[c][k][Ext(k).ty] \notin {None, Ext(k).val}
        /\ seen[c][Inner(k)][Ext(k).ty] = Ext(k).val

\* ------------------------------------------------------------------- C2
\* C2: ExtensionService::call returns exactly what its inner service
\* returned, Ok or Err, and returns nothing before the inner service has.
C2_ResultTransparent ==
    \A c \in Calls, k \in Wraps :
        /\ phase[c][k] = "done"
            => /\ phase[c][Inner(k)] = "done"
               /\ ret[c][k] = ret[c][Inner(k)]
               /\ ret[c][k] = InnerHandle(seen[c][0], req[c][svc[c]])
        /\ phase[c][k] # "done" => ret[c][k] = NoRet

C2_Witness ==
    \E c, d \in Calls :
        /\ svc[c] >= 1 /\ phase[c][svc[c]] = "done" /\ ret[c][svc[c]].tag = "Err"
        /\ svc[d] >= 1 /\ phase[d][svc[d]] = "done" /\ ret[d][svc[d]].tag = "Ok"

\* ------------------------------------------------------------------- C3
\* C3: a call of Extension(v).layer(inner) on a fresh context makes inner
\* receive v under its type and returns what inner alone returns on the
\* context that holds v; the base service called on a fresh context finds no
\* value ("found:v" against "missing").
C3_WrappedEqualsInnerWithValue ==
    \A c \in Calls :
        /\ (svc[c] >= 1 /\ phase[c][svc[c]] = "done" /\ seen[c][svc[c]] = Fresh)
            => LET k == svc[c]
                   e == Ext(k)
               IN  /\ seen[c][Inner(k)] = Insert(Fresh, e.ty, e.val)
                   /\ ret[c][k] = Alone(Inner(k), Insert(Fresh, e.ty, e.val), req[c][k])
                   /\ (k = 1 /\ e.ty = "String" /\ Odd(req[c][k]))
                        => ret[c][k] = Ok(<<"found", e.val>>)
        /\ (svc[c] = 0 /\ phase[c][0] = "done" /\ seen[c][0] = Fresh)
            => /\ \A t \in Types : seen[c][0][t] = None
               /\ Odd(req[c][0]) => ret[c][0] = Ok(<<"missing">>)

C3_Witness ==
    \E c, d \in Calls :
        /\ svc[c] = 1 /\ phase[c][1] = "done" /\ seen[c][1] = Fresh
        /\ Ext(1).ty = "String" /\ ret[c][1] = Ok(<<"found", Ext(1).val>>)
        /\ svc[d] = 0 /\ phase[d][0] = "done" /\ seen[d][0] = Fresh
        /\ ret[d][0] = Ok(<<"missing">>)

\* ------------------------------------------------------------------- C4
\* C4 as claimed: an inner service wrapped with v1 and then with v2, both of
\* type T, is called with v2 under T.
C4_SecondWrapVisible ==
    \A c \in Calls, k \in Wraps :
        (k >= 2 /\ Ext(k).ty = Ext(k - 1).ty /\ phase[c][k - 1] \in {"delegated", "done"}
              /\ phase[c][k] \in {"delegated", "done"})
            => seen[c][Inner(k - 1)][Ext(k).ty] = Ext(k).val

\* C4 as amended: the layer applied second is the outer one and inserts
\* first, so the inner service is called with v1, the value inserted last.
C4_LastInsertVisible ==
    \A c \in Calls, k \in Wraps :
        (k >= 2 /\ Ext(k).ty = Ext(k - 1).ty /\ phase[c][k - 1] \in {"delegated", "done"}
              /\ phase[c][k] \in {"delegated", "done"})
            => seen[c][Inner(k - 1)][Ext(k).ty] = Ext(k - 1).val

C4_Witness ==
    \E c \in Calls :
        /\ Len(services) >= 2 /\ svc[c] = 2
        /\ Ext(2).ty = Ext(1).ty /\ Ext(2).val # Ext(1).val
        /\ phase[c][1] = "delegated"
        /\ seen[c][1][Ext(2).ty] = Ext(2).val
        /\ seen[c][0][Ext(1).ty] = Ext(1).val

\* ------------------------------------------------------------------- C5
\* The context the base service of a call receives is made of that call's own
\* context and the layers the call went through.
C5_OwnContext ==
    \A c \in Calls :
        phase[c][0] # "none" => seen[c][0] = AtBase(svc[c], seen[c][svc[c]])

\* C5: in every interleaving of the calls, a step changes the state of one
\* call at most, and the base service of each call receives the duplicates
\* that call inserted into its own context, whatever the other calls do.
C5_NonInterference ==
    [][ /\ \A c, d \in Calls :
              c # d => (CallState(c)' = CallState(c) \/ CallState(d)' = CallState(d))
        /\ C5_OwnContext' ]_vars

C5_Witness ==
    \E c, d \in Calls :
        /\ c # d
        /\ req[c][0] # req[d][0]
        /\ phase[c][0] = "idle" /\ phase[d][0] = "idle"
        /\ svc[c] >= 1 /\ svc[d] >= 1
        /\ seen[c][0] # seen[d][0]
        /\ cx[c] = seen[c][0] /\ cx[d] = seen[d][0]

\* ------------------------------------------------------------------- C6
\* C6 as claimed: from the insertion until the call completes, the context
\* holds the held value under its type, whatever the inner service does.
C6_HeldForWholeCall ==
    \A c \in Calls, k \in Wraps :
        phase[c][k] \in {"inserted", "delegated"} => cx[c][Ext(k).ty] = Ext(k).val

\* A stage below service k writes an entry of type t of call c's context in
\* this step: a lower layer's insertion or the base service's write.
DownstreamWrite(c, k, t) ==
    \/ \E j \in 1..(k - 1) :
          phase[c][j] = "idle" /\ phase'[c][j] = "inserted" /\ Ext(j).ty = t
    \/ phase[c][0] = "idle" /\ phase'[c][0] = "wrote" /\ cx'[c][t] # cx[c][t]

\* C6 as amended: the context holds the held value when the insertion is
\* done, and no step but a downstream stage's write of that type changes it
\* before the call has completed; the call's own return leaves it in place.
C6_HeldUntilDownstreamWrite ==
    [][ \A c \in Calls, k \in Wraps :
          /\ phase'[c][k] = "inserted" => cx'[c][Ext(k).ty] = Ext(k).val
          /\ ( /\ phase[c][k] \in {"inserted", "delegated"}
               /\ cx[c][Ext(k).ty] = Ext(k).val
               /\ ~DownstreamWrite(c, k, Ext(k).ty) )
                => cx'[c][Ext(k).ty] = Ext(k).val ]_vars

C6_Witness ==
    \E c \in Calls, k \in Wraps :
        /\ phase[c][k] = "done" /\ svc[c] = k /\ k >= 2
        /\ cx[c] # seen[c][0]
        /\ cx[c][Ext(k).ty] = Ext(k).val

\* ------------------------------------------------------------------- C7
\* C7: two layers of different types stacked on a service: the service is
\* called with both values in its context, each under its own type.
C7_BothTypesVisible ==
    \A c \in Calls, k \in Wraps :
        (k >= 2 /\ Ext(k).ty # Ext(k - 1).ty /\ phase[c][k - 1] \in {"delegated", "done"}
              /\ phase[c][k] \in {"delegated", "done"})
            => /\ seen[c][Inner(k - 1)][Ext(k).ty] = Ext(k).val
               /\ seen[c][Inner(k - 1)][Ext(k - 1).ty] = Ext(k - 1).val

C7_Witness ==
    \E c \in Calls :
        /\ Len(services) >= 2 /\ svc[c] = 2
        /\ Ext(2).ty = "String" /\ Ext(1).ty = "i32"
        /\ phase[c][1] = "delegated" /\ phase[c][0] = "idle"
        /\ seen[c][2] = Fresh
        /\ cx[c]["String"] = Ext(2).val /\ cx[c]["i32"] = Ext(1).val

\* ------------------------------------------------------------------- C8
\* C8: no step changes an ExtensionService once layer() has built it, and
\* every insertion puts a value equal to the held one into the context, also
\* after a downstream stage has modified the duplicate of an earlier call.
C8_HeldValueNeverChanges ==
    [][ /\ \A k \in Wraps : k \in DOMAIN services' /\ services'[k] = services[k]
        /\ \A c \in Calls, k \in Wraps :
              (phase[c][k] = "idle" /\ phase'[c][k] = "inserted")
                  => cx'[c][Ext(k).ty] = Ext(k).val ]_vars

C8_Witness ==
    \E c, d \in Calls, k \in Wraps :
        /\ svc[c] = k /\ phase[c][k] = "done"
        /\ cx[c][Ext(k).ty] \notin {None, Ext(k).val}
        /\ svc[d] = k /\ phase[d][k] = "inserted"
        /\ cx[d][Ext(k).ty] = Ext(k).val

\* ------------------------------------------------------------------- C9
Order ==
    {<<"none", "idle">>, <<"idle", "inserted">>, <<"inserted", "delegated">>,
     <<"delegated", "done">>}

\* Each call of an ExtensionService moves idle -> inserted -> delegated ->
\* done and never back; the context is written by the step into inserted
\* alone, and the inner service is called by the step into delegated alone.
C9_Order ==
    [][ \A c \in Calls, k \in 1..MaxLayers :
          /\ phase'[c][k] # phase[c][k] => <<phase[c][k], phase'[c][k]>> \in Order
          /\ (k \in Wraps /\ k <= svc[c]) =>
                /\ (phase[c][Inner(k)] # phase'[c][Inner(k)] /\ phase'[c][Inner(k)] = "idle")
                      <=> (phase[c][k] = "inserted" /\ phase'[c][k] = "delegated")
                /\ (phase[c][k] = "idle" /\ phase'[c][k] = "inserted")
                      => cx'[c] = Insert(cx[c], Ext(k).ty, Ext(k).val)
                /\ (phase[c][k] \in {"inserted", "delegated"} /\ phase'[c][k] # phase[c][k])
                      => cx'[c] = cx[c]
                /\ (phase[c][k] = "delegated" /\ phase'[c][k] = "done")
                      => /\ phase[c][Inner(k)] = "done"
                         /\ ret'[c][k] = ret[c][Inner(k)]
                         /\ ret'[c][Inner(k)] = ret[c][Inner(k)] ]_vars

\* The inner service's call has completed and the call has not.
Due(c, k) == k \in Wraps /\ phase[c][k] = "delegated" /\ phase[c][Inner(k)] = "done"

\* A call whose inner call has completed does not stay behind: it leaves
\* "delegated", which by C9_Order is the step to done with the inner result.
C9_Completes ==
    []<>(\A c \in Calls, k \in 1..MaxLayers : ~Due(c, k))

\* C9: one pass idle -> inserted -> delegated -> done per call, with one
\* insertion and one call of the inner service, no retry; and a call whose
\* inner service has completed reaches done with that result.
C9_SinglePass == C9_Order /\ C9_Completes

C9_Witness ==
    \E c \in Calls :
        /\ svc[c] = 2 /\ phase[c][2] = "done" /\ phase[c][1] = "done"
        /\ ret[c][2] = ret[c][0] /\ ret[c][2].tag = "Err"

\* ------------------------------------------------------------------ C10
\* C10: the inner service is called with the request the ExtensionService
\* received and with a context that differs from the received one in the
\* entry of the held value's type at most.
C10_Frame ==
    \A c \in Calls, k \in Wraps :
        phase[c][k] \in {"delegated", "done"}
            => /\ req[c][Inner(k)] = req[c][k]
               /\ \A t \in Types \ {Ext(k).ty} : seen[c][Inner(k)][t] = seen[c][k][t]

C10_Witness ==
    \E c \in Calls, k \in Wraps, t \in Types :
        /\ phase[c][k] = "delegated"
        /\ t # Ext(k).ty
        /\ seen[c][k][t] # None /\ seen[c][Inner(k)][t] = seen[c][k][t]
        /\ seen[c][k][Ext(k).ty] # seen[c][Inner(k)][Ext(k).ty]
        /\ req[c][k] = 2 /\ req[c][Inner(k)] = 2

====
